---- MODULE Spec2Model ----
(***************************************************************************)
(* Decoupling analysis for Central Asia: the Tapio decoupling classifier   *)
(* (analysis.py, get_decoupling_status) and the LMDI decomposition of      *)
(* Kazakhstan's agricultural emissions (kazakhstan_lmdi.py, lmdi_weight    *)
(* and run_lmdi_analysis).                                                 *)
(*                                                                         *)
(* Numbers.  The programs compute on IEEE doubles.  The model keeps the    *)
(* special values (NaN, +inf, -inf) and computes finite values exactly:    *)
(* a finite value is  r + l*ln(2) + w/ln(2)  with rational r, l, w.  With  *)
(* levels that are zero or powers of two every logarithm the programs take *)
(* is an integer multiple of ln(2), so weights, effects and their sums     *)
(* stay in this form.  The literal 1e-9 of lmdi_weight is the value "eps"; *)
(* a finite value that depends on it is kept as "apx" (finite, sign known, *)
(* magnitude not tracked).  Rounding error of the doubles is not modelled. *)
(***************************************************************************)
EXTENDS Integers, Sequences, FiniteSets, TLC

(***************************************************************************)
(* Rational numbers <<n, d>>, d > 0, in lowest terms.                      *)
(***************************************************************************)
Abs(n) == IF n < 0 THEN -n ELSE n

RECURSIVE GCD(_, _)
GCD(a, b) == IF b = 0 THEN a ELSE GCD(b, a % b)

RNorm(n, d) ==
    LET g == GCD(Abs(n), Abs(d))
        s == IF d < 0 THEN -1 ELSE 1
    IN  <<(s * n) \div g, (s * d) \div g>>

RZ == <<0, 1>>
RInt(n) == <<n, 1>>
RAdd(a, b) == RNorm(a[1] * b[2] + b[1] * a[2], a[2] * b[2])
RNeg(a) == <<-a[1], a[2]>>
RSub(a, b) == RAdd(a, RNeg(b))
RMul(a, b) == RNorm(a[1] * b[1], a[2] * b[2])
RDiv(a, b) == RNorm(a[1] * b[2], a[2] * b[1])
RSign(a) == IF a[1] > 0 THEN 1 ELSE IF a[1] < 0 THEN -1 ELSE 0
RLess(a, b) == a[1] * b[2] < b[1] * a[2]
RLeq(a, b) == a[1] * b[2] <= b[1] * a[2]

(***************************************************************************)
(* Doubles.  k is the kind: "nan", "inf" (sign s), "fin" (the exact value  *)
(* r + l*ln2 + w/ln2), "eps" (the literal 1e-9), "apx" (finite, sign s,    *)
(* s = 0 when the sign is not tracked).                                    *)
(***************************************************************************)
Fin(r, l, w) == [k |-> "fin", r |-> r, l |-> l, w |-> w, s |-> 0]
Special(kind, sgn) == [k |-> kind, r |-> RZ, l |-> RZ, w |-> RZ, s |-> sgn]
NaN == Special("nan", 0)
PInf == Special("inf", 1)
NInf == Special("inf", -1)
Eps == Special("eps", 1)
Apx(sgn) == Special("apx", sgn)
Num(n) == Fin(RInt(n), RZ, RZ)
Frac(n, d) == Fin(RNorm(n, d), RZ, RZ)
Zero == Num(0)

RECURSIVE Pow2(_)
Pow2(e) == IF e = 0 THEN 1 ELSE 2 * Pow2(e - 1)

\* pd.isna / numpy.isnan
IsNaN(x) == x.k = "nan"
IsInf(x) == x.k = "inf"
IsFinite(x) == x.k \in {"fin", "eps", "apx"}
IsRational(x) == x.k = "fin" /\ x.l = RZ /\ x.w = RZ
IsZero(x) == x.k = "fin" /\ x.r = RZ /\ x.l = RZ /\ x.w = RZ

\* Sign of a value.  A finite value with one non-zero component has that
\* component's sign (ln 2 > 0); for a mixed sum ln 2 is taken as 7/10, which
\* the programs never need: they test no sign of a sum.
Sgn(x) ==
    IF x.k # "fin" THEN x.s
    ELSE IF x.l = RZ /\ x.w = RZ THEN RSign(x.r)
    ELSE IF x.r = RZ /\ x.w = RZ THEN RSign(x.l)
    ELSE IF x.r = RZ /\ x.l = RZ THEN RSign(x.w)
    ELSE RSign(RAdd(x.r, RAdd(RMul(x.l, <<7, 10>>), RMul(x.w, <<10, 7>>))))

\* x == y on doubles: false when either side is NaN
FEq(x, y) == ~IsNaN(x) /\ ~IsNaN(y) /\ x = y

FNeg(x) ==
    IF x.k = "fin" THEN Fin(RNeg(x.r), RNeg(x.l), RNeg(x.w))
    ELSE IF x.k = "nan" THEN NaN
    ELSE IF x.k = "eps" THEN Apx(-1)
    ELSE Special(x.k, -x.s)

\* x + y
FAdd(x, y) ==
    IF IsNaN(x) \/ IsNaN(y) THEN NaN
    ELSE IF IsInf(x) /\ IsInf(y) THEN (IF x.s = y.s THEN x ELSE NaN)
    ELSE IF IsInf(x) THEN x
    ELSE IF IsInf(y) THEN y
    ELSE IF x.k = "fin" /\ y.k = "fin"
         THEN Fin(RAdd(x.r, y.r), RAdd(x.l, y.l), RAdd(x.w, y.w))
    ELSE IF IsZero(x) THEN y
    ELSE IF IsZero(y) THEN x
    ELSE Apx(IF Sgn(x) = Sgn(y) THEN Sgn(x) ELSE 0)

\* x - y
FSub(x, y) == FAdd(x, FNeg(y))

\* x * y
FMul(x, y) ==
    IF IsNaN(x) \/ IsNaN(y) THEN NaN
    ELSE IF IsInf(x) \/ IsInf(y)
         THEN (IF IsZero(x) \/ IsZero(y) THEN NaN
               ELSE Special("inf", Sgn(x) * Sgn(y)))
    ELSE IF IsZero(x) \/ IsZero(y) THEN Zero
    ELSE IF x.k = "fin" /\ y.k = "fin"
            /\ RMul(x.l, y.l) = RZ /\ RMul(x.w, y.w) = RZ
         THEN Fin(RAdd(RMul(x.r, y.r), RAdd(RMul(x.l, y.w), RMul(x.w, y.l))),
                  RAdd(RMul(x.r, y.l), RMul(x.l, y.r)),
                  RAdd(RMul(x.r, y.w), RMul(x.w, y.r)))
    ELSE Apx(Sgn(x) * Sgn(y))

\* x / y on numpy doubles: a division by zero gives an infinity or NaN (with
\* a warning), never an exception
FDiv(x, y) ==
    IF IsNaN(x) \/ IsNaN(y) THEN NaN
    ELSE IF IsInf(x)
         THEN (IF IsInf(y) THEN NaN
               ELSE IF IsZero(y) THEN x
               ELSE Special("inf", x.s * Sgn(y)))
    ELSE IF IsInf(y) THEN Zero
    ELSE IF IsZero(y)
         THEN (IF IsZero(x) THEN NaN ELSE Special("inf", Sgn(x)))
    ELSE IF IsZero(x) THEN Zero
    ELSE IF IsRational(x) /\ IsRational(y) THEN Fin(RDiv(x.r, y.r), RZ, RZ)
    ELSE IF IsRational(x) /\ y.k = "fin" /\ y.r = RZ /\ y.w = RZ
         THEN Fin(RZ, RZ, RDiv(x.r, y.l))
    ELSE Apx(Sgn(x) * Sgn(y))

\* The exponent e of a positive rational 2^e; NoLog2 when it is no power of 2
NoLog2 == <<>>

RECURSIVE Log2Nat(_)
Log2Nat(n) ==
    IF n = 1 THEN <<0>>
    ELSE IF n % 2 # 0 THEN NoLog2
    ELSE LET h == Log2Nat(n \div 2)
         IN  IF h = NoLog2 THEN NoLog2 ELSE <<h[1] + 1>>

Log2Rat(q) ==
    IF q[2] = 1 THEN Log2Nat(q[1])
    ELSE IF q[1] = 1
         THEN LET h == Log2Nat(q[2]) IN IF h = NoLog2 THEN NoLog2 ELSE <<-h[1]>>
    ELSE NoLog2

\* np.log(x): log(0) = -inf and log(negative) = NaN (with a warning)
FLog(x) ==
    IF IsNaN(x) THEN NaN
    ELSE IF IsInf(x) THEN (IF x.s > 0 THEN PInf ELSE NaN)
    ELSE IF IsZero(x) THEN NInf
    ELSE IF Sgn(x) < 0 THEN NaN
    ELSE IF IsRational(x) /\ Log2Rat(x.r) # NoLog2
         THEN Fin(RZ, RInt(Log2Rat(x.r)[1]), RZ)
    ELSE IF x.k = "eps" THEN Apx(-1)
    ELSE Apx(0)

\* x < y, x <= y, x > y, x >= y on doubles: false when either side is NaN
FLt(x, y) == ~IsNaN(x) /\ ~IsNaN(y) /\ x # y /\ Sgn(FSub(x, y)) < 0
FGt(x, y) == FLt(y, x)
FLeq(x, y) == ~IsNaN(x) /\ ~IsNaN(y) /\ (x = y \/ FLt(x, y))
FGeq(x, y) == FLeq(y, x)

VARIABLES
    \* analysis.py: one call of get_decoupling_status
    gdp_growth, em_growth,   \* the arguments
    status,                  \* the returned label ("" before the return)
    ret_line,                \* the source line of the return taken (0 before)
    \* kazakhstan_lmdi.py: one call of lmdi_weight
    v_t, v_0,                \* the arguments
    weight,                  \* the returned weight
    w_pc,                    \* "idle", "call", "done"
    \* kazakhstan_lmdi.py: one run of run_lmdi_analysis
    pc,                      \* "idle", "start", "cleaned", "loop", "done"
    file_exists,             \* date_LMDI_ARDL.csv is there
    columns,                 \* the renamed columns the CSV file has
    csv,                     \* the rows of the CSV file
    df,                      \* the data frame
    i,                       \* the loop index of line 97
    results,                 \* the list of result rows (line 95)
    df_results,              \* the rounded result table (line 157)
    factors_file,            \* kazakhstan_lmdi_factors.xlsx was written (it holds df)
    results_file,            \* kazakhstan_lmdi_results.xlsx was written (it holds df_results)
    printed,                 \* what the run printed on the console
    raised                   \* an exception left run_lmdi_analysis

classifier_vars == <<gdp_growth, em_growth, status, ret_line>>
weight_vars == <<v_t, v_0, weight, w_pc>>
run_vars == <<pc, file_exists, columns, csv, df, i, results, df_results,
              factors_file, results_file, printed, raised>>
vars == <<classifier_vars, weight_vars, run_vars>>

(***************************************************************************)
(* analysis.py: the Tapio decoupling classifier                            *)
(***************************************************************************)
\* The elasticity bands of lines 38-45 and 51-56
BandLow == Frac(8, 10)
BandHigh == Frac(12, 10)

Labels ==
    {"No Data", "Strong Decoupling", "Weak Decoupling", "Coupling",
     "Strong Coupling", "Weak Recession", "Coupled Recession",
     "Strong Recession", "Strong Negative Coupling", "Not Classified"}

Return(label, line) == [status |-> label, line |-> line]

\* A copy of get_decoupling_status that tests elasticity < 1.2 at line 41
get_decoupling_status_lt(gdp, em) ==
    IF IsNaN(gdp) \/ IsNaN(em) THEN Return("No Data", 28)
    ELSE IF FGt(gdp, Zero) /\ FLt(em, Zero) THEN Return("Strong Decoupling", 32)
    ELSE IF FGt(gdp, Zero) /\ FGt(em, Zero)
         THEN IF FEq(gdp, Zero) THEN Return("Not Classified", 36)
              ELSE LET elasticity == FDiv(em, gdp)
                   IN  IF FLt(elasticity, BandLow) THEN Return("Weak Decoupling", 39)
                       ELSE IF FLt(elasticity, BandHigh) THEN Return("Coupling", 42)
                       ELSE Return("Strong Coupling", 45)
    ELSE IF FLt(gdp, Zero) /\ FLt(em, Zero)
         THEN IF FEq(gdp, Zero) THEN Return("Not Classified", 49)
              ELSE LET elasticity == FDiv(em, gdp)
                   IN  IF FGt(elasticity, BandHigh) THEN Return("Weak Recession", 52)
                       ELSE IF FGeq(elasticity, BandLow) THEN Return("Coupled Recession", 54)
                       ELSE Return("Strong Recession", 56)
    ELSE IF FLt(gdp, Zero) /\ FGt(em, Zero) THEN Return("Strong Negative Coupling", 60)
    ELSE Return("Not Classified", 62)

\* A copy that tests elasticity > 0.8 at line 53
get_decoupling_status_gt(gdp, em) ==
    IF IsNaN(gdp) \/ IsNaN(em) THEN Return("No Data", 28)
    ELSE IF FGt(gdp, Zero) /\ FLt(em, Zero) THEN Return("Strong Decoupling", 32)
    ELSE IF FGt(gdp, Zero) /\ FGt(em, Zero)
         THEN IF FEq(gdp, Zero) THEN Return("Not Classified", 36)
              ELSE LET elasticity == FDiv(em, gdp)
                   IN  IF FLt(elasticity, BandLow) THEN Return("Weak Decoupling", 39)
                       ELSE IF FLeq(elasticity, BandHigh) THEN Return("Coupling", 42)
                       ELSE Return("Strong Coupling", 45)
    ELSE IF FLt(gdp, Zero) /\ FLt(em, Zero)
         THEN IF FEq(gdp, Zero) THEN Return("Not Classified", 49)
              ELSE LET elasticity == FDiv(em, gdp)
                   IN  IF FGt(elasticity, BandHigh) THEN Return("Weak Recession", 52)
                       ELSE IF FGt(elasticity, BandLow) THEN Return("Coupled Recession", 54)
                       ELSE Return("Strong Recession", 56)
    ELSE IF FLt(gdp, Zero) /\ FGt(em, Zero) THEN Return("Strong Negative Coupling", 60)
    ELSE Return("Not Classified", 62)

\* A copy whose line 27 tests gdp_growth alone
get_decoupling_status_isna(gdp, em) ==
    IF IsNaN(gdp) THEN Return("No Data", 28)
    ELSE IF FGt(gdp, Zero) /\ FLt(em, Zero) THEN Return("Strong Decoupling", 32)
    ELSE IF FGt(gdp, Zero) /\ FGt(em, Zero)
         THEN IF FEq(gdp, Zero) THEN Return("Not Classified", 36)
              ELSE LET elasticity == FDiv(em, gdp)
                   IN  IF FLt(elasticity, BandLow) THEN Return("Weak Decoupling", 39)
                       ELSE IF FLeq(elasticity, BandHigh) THEN Return("Coupling", 42)
                       ELSE Return("Strong Coupling", 45)
    ELSE IF FLt(gdp, Zero) /\ FLt(em, Zero)
         THEN IF FEq(gdp, Zero) THEN Return("Not Classified", 49)
              ELSE LET elasticity == FDiv(em, gdp)
                   IN  IF FGt(elasticity, BandHigh) THEN Return("Weak Recession", 52)
                       ELSE IF FGeq(elasticity, BandLow) THEN Return("Coupled Recession", 54)
                       ELSE Return("Strong Recession", 56)
    ELSE IF FLt(gdp, Zero) /\ FGt(em, Zero) THEN Return("Strong Negative Coupling", 60)
    ELSE Return("Not Classified", 62)

\* A copy whose guards of lines 35 and 48 admit a zero growth rate
get_decoupling_status_zero(gdp, em) ==
    IF IsNaN(gdp) \/ IsNaN(em) THEN Return("No Data", 28)
    ELSE IF FGt(gdp, Zero) /\ FLt(em, Zero) THEN Return("Strong Decoupling", 32)
    ELSE IF FGeq(gdp, Zero) /\ FGeq(em, Zero)
         THEN IF FEq(gdp, Zero) THEN Return("Not Classified", 36)
              ELSE LET elasticity == FDiv(em, gdp)
                   IN  IF FLt(elasticity, BandLow) THEN Return("Weak Decoupling", 39)
                       ELSE IF FLeq(elasticity, BandHigh) THEN Return("Coupling", 42)
                       ELSE Return("Strong Coupling", 45)
    ELSE IF FLeq(gdp, Zero) /\ FLeq(em, Zero)
         THEN IF FEq(gdp, Zero) THEN Return("Not Classified", 49)
              ELSE LET elasticity == FDiv(em, gdp)
                   IN  IF FGt(elasticity, BandHigh) THEN Return("Weak Recession", 52)
                       ELSE IF FGeq(elasticity, BandLow) THEN Return("Coupled Recession", 54)
                       ELSE Return("Strong Recession", 56)
    ELSE IF FLt(gdp, Zero) /\ FGt(em, Zero) THEN Return("Strong Negative Coupling", 60)
    ELSE Return("Not Classified", 62)

\* get_decoupling_status(gdp_growth, em_growth): the label and the line of
\* the return statement that gave it
get_decoupling_status(gdp, em) ==
    IF IsNaN(gdp) \/ IsNaN(em) THEN Return("No Data", 28)
    ELSE IF FGt(gdp, Zero) /\ FLt(em, Zero) THEN Return("Strong Decoupling", 32)
    ELSE IF FGt(gdp, Zero) /\ FGt(em, Zero)
         THEN IF FEq(gdp, Zero) THEN Return("Not Classified", 36)
              ELSE LET elasticity == FDiv(em, gdp)
                   IN  IF FLt(elasticity, BandLow) THEN Return("Weak Decoupling", 39)
                       ELSE IF FLeq(elasticity, BandHigh) THEN Return("Coupling", 42)
                       ELSE Return("Strong Coupling", 45)
    ELSE IF FLt(gdp, Zero) /\ FLt(em, Zero)
         THEN IF FEq(gdp, Zero) THEN Return("Not Classified", 49)
              ELSE LET elasticity == FDiv(em, gdp)
                   IN  IF FGt(elasticity, BandHigh) THEN Return("Weak Recession", 52)
                       ELSE IF FGeq(elasticity, BandLow) THEN Return("Coupled Recession", 54)
                       ELSE Return("Strong Recession", 56)
    ELSE IF FLt(gdp, Zero) /\ FGt(em, Zero) THEN Return("Strong Negative Coupling", 60)
    ELSE Return("Not Classified", 62)

(***************************************************************************)
(* kazakhstan_lmdi.py: the logarithmic mean weight                         *)
(***************************************************************************)
\* Line 37, (v_t - v_0) / (np.log(v_t) - np.log(v_0)), on two positive
\* values: equal values give 0/0; the logarithmic mean of two different
\* positive values is positive and finite
log_mean(a, b) ==
    IF a = b THEN FDiv(Zero, Zero)
    ELSE IF a.k = "eps" \/ b.k = "eps" THEN Apx(1)
    ELSE FDiv(FSub(a, b), FSub(FLog(a), FLog(b)))

\* A copy of lmdi_weight that returns the arithmetic mean of the two values
lmdi_weight_mean(vt, v0) ==
    IF FEq(vt, v0) THEN vt
    ELSE LET a == IF IsZero(vt) \/ IsNaN(vt) THEN Eps ELSE vt
             b == IF IsZero(v0) \/ IsNaN(v0) THEN Eps ELSE v0
         IN  FDiv(FAdd(a, b), Num(2))

\* lmdi_weight(v_t, v_0)
lmdi_weight(vt, v0) ==
    IF FEq(vt, v0) THEN vt
    ELSE LET a == IF IsZero(vt) \/ IsNaN(vt) THEN Eps ELSE vt
             b == IF IsZero(v0) \/ IsNaN(v0) THEN Eps ELSE v0
         IN  log_mean(a, b)

(***************************************************************************)
(* kazakhstan_lmdi.py: run_lmdi_analysis                                   *)
(***************************************************************************)
\* The renamed columns of columns_to_use (lines 50-58)
columns_to_use ==
    {"Year", "E_total", "E_crops", "E_livestock",
     "A_total", "A_crops", "A_livestock"}

\* Line 109
sectors == <<"crops", "livestock">>

\* The first year kept by the filter of line 73
MinYear == 2003

\* Lines 69-74: rows whose year did not parse are dropped, rows before
\* MinYear are filtered out, the index is reset and Year becomes an integer.
\* The order of the rows is the order of the file.
RECURSIVE clean_years(_)
clean_years(rows) ==
    IF rows = <<>> THEN <<>>
    ELSE LET row == Head(rows)
             rest == clean_years(Tail(rows))
         IN  IF IsNaN(row.Year) \/ ~FGeq(row.Year, Num(MinYear)) THEN rest
             ELSE <<[Year |-> row.Year.r[1], E |-> row.E, A |-> row.A]>> \o rest

\* The division of two columns in lines 81-86
column_div(x, y) == FDiv(x, y)

\* Lines 81-86: the structure share S_i and the intensity I_i of a row
with_factors(row) ==
    [Year |-> row.Year, E |-> row.E, A |-> row.A,
     S |-> [crops |-> column_div(row.A.crops, row.A.total),
            livestock |-> column_div(row.A.livestock, row.A.total)],
     I |-> [crops |-> column_div(row.E.crops, row.A.crops),
            livestock |-> column_div(row.E.livestock, row.A.livestock)]]

\* A copy of sector_term that replaces a NaN or infinite term by 0
sector_term_to_num(row_t, row_t0, sector, effect) ==
    LET W_i == lmdi_weight(row_t.E[sector], row_t0.E[sector])
        ratio == IF effect = "activity"
                 THEN FDiv(row_t.A.total, row_t0.A.total)
                 ELSE IF effect = "structure"
                 THEN FDiv(row_t.S[sector], row_t0.S[sector])
                 ELSE FDiv(row_t.I[sector], row_t0.I[sector])
        term == FMul(W_i, FLog(ratio))
    IN  IF IsFinite(term) THEN term ELSE Zero

\* Lines 133-135 for one sector: the term W_i * np.log(ratio) of one effect
sector_term(row_t, row_t0, sector, effect) ==
    LET W_i == lmdi_weight(row_t.E[sector], row_t0.E[sector])
        ratio == IF effect = "activity"
                 THEN FDiv(row_t.A.total, row_t0.A.total)
                 ELSE IF effect = "structure"
                 THEN FDiv(row_t.S[sector], row_t0.S[sector])
                 ELSE FDiv(row_t.I[sector], row_t0.I[sector])
    IN  FMul(W_i, FLog(ratio))

\* Lines 112-135: the sum of one effect over the first n sectors, from 0
RECURSIVE delta_E(_, _, _, _)
delta_E(row_t, row_t0, n, effect) ==
    IF n = 0 THEN Zero
    ELSE FAdd(delta_E(row_t, row_t0, n - 1, effect),
              sector_term(row_t, row_t0, sectors[n], effect))

\* Lines 141-151: the result row from the three sums
result_of(year_t, delta_E_total_actual, delta_E_activity, delta_E_structure, delta_E_intensity) ==
    [Year |-> year_t,
     Delta_E_Total_Actual |-> delta_E_total_actual,
     Effect_Activity |-> delta_E_activity,
     Effect_Structure |-> delta_E_structure,
     Effect_Intensity |-> delta_E_intensity,
     Delta_E_Total_Calculated |->
         FAdd(FAdd(delta_E_activity, delta_E_structure), delta_E_intensity)]

\* Lines 98-151: the result row of the loop index idx (t = idx, t0 = idx - 1
\* in the 0-based index of the data frame)
result_row(frame, idx) ==
    LET row_t == frame[idx + 1]
        row_t0 == frame[idx]
    IN  result_of(row_t.Year,
                  FSub(row_t.E.total, row_t0.E.total),
                  delta_E(row_t, row_t0, Len(sectors), "activity"),
                  delta_E(row_t, row_t0, Len(sectors), "structure"),
                  delta_E(row_t, row_t0, Len(sectors), "intensity"))

\* round(x, 2) of a double: to the nearest hundredth, ties to the even one;
\* NaN and the infinities stay.  A value with an irrational part is finite
\* after rounding and its digits are not tracked.
round2(x) ==
    IF IsNaN(x) \/ IsInf(x) THEN x
    ELSE IF ~IsRational(x) THEN Apx(0)
    ELSE LET n == 100 * x.r[1]
             d == x.r[2]
             f == n \div d
             rem == n - f * d
             h == IF 2 * rem < d THEN f
                  ELSE IF 2 * rem > d THEN f + 1
                  ELSE IF f % 2 = 0 THEN f ELSE f + 1
         IN  Frac(h, 100)

\* Line 157: DataFrame.round(2) rounds the float columns; Year is an integer
round_row(row) ==
    [Year |-> row.Year,
     Delta_E_Total_Actual |-> round2(row.Delta_E_Total_Actual),
     Effect_Activity |-> round2(row.Effect_Activity),
     Effect_Structure |-> round2(row.Effect_Structure),
     Effect_Intensity |-> round2(row.Effect_Intensity),
     Delta_E_Total_Calculated |-> round2(row.Delta_E_Total_Calculated)]


\* Lines 47 and 167-169: the file is not there; the handler prints and the
\* function returns
LoadNotFound ==
    /\ pc = "start"
    /\ ~file_exists
    /\ printed' = Append(printed, "file not found")
    /\ pc' = "done"
    /\ UNCHANGED <<file_exists, columns, csv, df, i, results, df_results,
                   factors_file, results_file, raised>>
    /\ UNCHANGED <<classifier_vars, weight_vars>>

\* Lines 61 and 170-171: a column of columns_to_use is not in the file; the
\* KeyError of line 61 is caught by "except Exception", printed, and the
\* function returns
LoadMissingColumn ==
    /\ pc = "start"
    /\ file_exists
    /\ ~(columns_to_use \subseteq columns)
    /\ printed' = Append(printed, "critical error: KeyError")
    /\ pc' = "done"
    /\ UNCHANGED <<file_exists, columns, csv, df, i, results, df_results,
                   factors_file, results_file, raised>>
    /\ UNCHANGED <<classifier_vars, weight_vars>>

\* Lines 47-76: the file is read, the columns selected and cleaned
LoadAndClean ==
    /\ pc = "start"
    /\ file_exists
    /\ columns_to_use \subseteq columns
    /\ df' = clean_years(csv)
    /\ printed' = Append(printed, "cleaned")
    /\ pc' = "cleaned"
    /\ UNCHANGED <<file_exists, columns, csv, i, results, df_results,
                   factors_file, results_file, raised>>
    /\ UNCHANGED <<classifier_vars, weight_vars>>

\* Lines 81-97: S and I are added to the frame, the frame is saved, the
\* result list starts empty and the loop starts at 1
Factors ==
    /\ pc = "cleaned"
    /\ df' = [n \in 1..Len(df) |-> with_factors(df[n])]
    /\ factors_file' = TRUE
    /\ printed' = Append(printed, "factors saved")
    /\ results' = <<>>
    /\ i' = 1
    /\ pc' = "loop"
    /\ UNCHANGED <<file_exists, columns, csv, df_results, results_file, raised>>
    /\ UNCHANGED <<classifier_vars, weight_vars>>

\* Lines 97-151: one pass of "for i in range(1, len(df))"
Iterate ==
    /\ pc = "loop"
    /\ i < Len(df)
    /\ results' = Append(results, result_row(df, i))
    /\ i' = i + 1
    /\ UNCHANGED <<pc, file_exists, columns, csv, df, df_results,
                   factors_file, results_file, printed, raised>>
    /\ UNCHANGED <<classifier_vars, weight_vars>>

\* Lines 154-165: the loop is over; the results are rounded, saved, printed
Finish ==
    /\ pc = "loop"
    /\ ~(i < Len(df))
    /\ df_results' = [n \in 1..Len(results) |-> round_row(results[n])]
    /\ results_file' = TRUE
    /\ printed' = Append(printed, "results saved")
    /\ pc' = "done"
    /\ UNCHANGED <<file_exists, columns, csv, df, i, results,
                   factors_file, raised>>
    /\ UNCHANGED <<classifier_vars, weight_vars>>

NextRun ==
    \/ LoadNotFound
    \/ LoadMissingColumn
    \/ LoadAndClean
    \/ Factors
    \/ Iterate
    \/ Finish

(***************************************************************************)
(* Calls of the two pure functions                                         *)
(***************************************************************************)
\* status = [get_decoupling_status(g, e) ...] (analysis.py, line 127)
Classify ==
    /\ status = ""
    /\ LET ret == get_decoupling_status(gdp_growth, em_growth)
       IN  /\ status' = ret.status
           /\ ret_line' = ret.line
    /\ UNCHANGED <<gdp_growth, em_growth, weight_vars, run_vars>>

\* W_i = lmdi_weight(E_i_t, E_i_t0) (kazakhstan_lmdi.py, line 130)
Weigh ==
    /\ w_pc = "call"
    /\ weight' = lmdi_weight(v_t, v_0)
    /\ w_pc' = "done"
    /\ UNCHANGED <<v_t, v_0, classifier_vars, run_vars>>

(***************************************************************************)
(* Bounds and inputs                                                       *)
(***************************************************************************)
MaxRate == 6        \* growth rates are the integers -MaxRate..MaxRate, or NaN
MaxWeightExp == 4   \* lmdi_weight is called on 2^0..2^MaxWeightExp, 0, 1e-9, NaN
MaxExp == 1         \* positive levels of a table are 2^0..2^MaxExp
MaxRows == 3        \* rows of the CSV file
YearSpan == 2       \* years of the file are MinYear-1..MinYear+YearSpan, or NaN

Rates == {NaN} \cup {Num(n) : n \in -MaxRate..MaxRate}
WeightInputs == {NaN, Zero, Eps} \cup {Num(Pow2(e)) : e \in 0..MaxWeightExp}
Pos == {Num(Pow2(e)) : e \in 0..MaxExp}
AnyLevel == {NaN, Zero} \cup Pos
RawYears == {NaN} \cup {Num(y) : y \in (MinYear - 1)..(MinYear + YearSpan)}

Levels(ec, el, et, ac, al, at) ==
    [E |-> [crops |-> ec, livestock |-> el, total |-> et],
     A |-> [crops |-> ac, livestock |-> al, total |-> at]]

CsvRow(year, lv) == [Year |-> year, E |-> lv.E, A |-> lv.A]

\* Two rows of consecutive years with the levels a and b
Pair(a, b) == <<CsvRow(Num(MinYear), a), CsvRow(Num(MinYear + 1), b)>>

\* Files of up to MaxRows rows in any order of years, the years unparsable,
\* repeated or before MinYear included; the crops emissions vary
OrderRows ==
    {CsvRow(y, Levels(ec, Num(1), FAdd(ec, Num(1)), Num(1), Num(1), Num(2))) :
        y \in RawYears, ec \in Pos}
OrderTables == UNION {[1..n -> OrderRows] : n \in 0..MaxRows}

\* Two-year files whose levels are all strictly positive; E_total is the sum
\* of the sector emissions, or one more
PosLevels ==
    {Levels(ec, el, FAdd(FAdd(ec, el), Num(IF sums THEN 0 ELSE 1)), ac, al, at) :
        ec \in Pos, el \in Pos, ac \in Pos, al \in Pos,
        at \in {Num(1), Num(Pow2(MaxExp))}, sums \in BOOLEAN}

\* Two-year files in which the levels of one sector may be zero or missing
\* and A_total may be zero or missing
DegLevels(sector) ==
    {IF sector = "crops"
     THEN Levels(e, eo, FAdd(e, eo), a, Num(1), at)
     ELSE Levels(eo, e, FAdd(e, eo), Num(1), a, at) :
        e \in AnyLevel, a \in AnyLevel, eo \in {Num(1), Num(Pow2(MaxExp))},
        at \in {NaN, Zero, Num(Pow2(MaxExp))}}

OneTable == Pair(Levels(Num(1), Num(1), Num(2), Num(1), Num(1), Num(2)),
                 Levels(Num(2), Num(1), Num(3), Num(1), Num(1), Num(2)))

ClassifierIdle ==
    /\ gdp_growth = NaN
    /\ em_growth = NaN
    /\ status = ""
    /\ ret_line = 0

WeightIdle ==
    /\ v_t = NaN
    /\ v_0 = NaN
    /\ weight = NaN
    /\ w_pc = "idle"

RunIdle ==
    /\ pc = "idle"
    /\ file_exists = FALSE
    /\ columns = {}
    /\ csv = <<>>
    /\ df = <<>>
    /\ i = 0
    /\ results = <<>>
    /\ df_results = <<>>
    /\ factors_file = FALSE
    /\ results_file = FALSE
    /\ printed = <<>>
    /\ raised = FALSE

\* The state at the call of run_lmdi_analysis: a file with all the columns
\* and one of the tables, or no file, or a file that lacks one column
RunStart(table) ==
    /\ pc = "start"
    /\ \/ /\ file_exists = TRUE
          /\ columns = columns_to_use
          /\ table
       \/ /\ file_exists = FALSE
          /\ columns = columns_to_use
          /\ csv = OneTable
       \/ /\ file_exists = TRUE
          /\ columns \in {columns_to_use \ {c} : c \in columns_to_use}
          /\ csv = OneTable
    /\ df = <<>>
    /\ i = 0
    /\ results = <<>>
    /\ df_results = <<>>
    /\ factors_file = FALSE
    /\ results_file = FALSE
    /\ printed = <<>>
    /\ raised = FALSE
    /\ ClassifierIdle
    /\ WeightIdle

Init == RunStart(csv \in OrderTables)
InitReconcile ==
    RunStart(\E a \in PosLevels, b \in PosLevels : csv = Pair(a, b))
InitUndefined ==
    RunStart(\E sector \in {"crops", "livestock"} :
                \E a \in DegLevels(sector), b \in DegLevels(sector) :
                    csv = Pair(a, b))

InitClassifier ==
    /\ gdp_growth \in Rates
    /\ em_growth \in Rates
    /\ status = ""
    /\ ret_line = 0
    /\ WeightIdle
    /\ RunIdle

InitWeight ==
    /\ v_t \in WeightInputs
    /\ v_0 \in WeightInputs
    /\ weight = NaN
    /\ w_pc = "call"
    /\ ClassifierIdle
    /\ RunIdle

Next == NextRun
NextClassifier == Classify
NextWeight == Weigh

Spec == Init /\ [][Next]_vars
SpecReconcile == InitReconcile /\ [][Next]_vars
SpecUndefined == InitUndefined /\ [][Next]_vars
SpecClassifier == InitClassifier /\ [][NextClassifier]_vars
SpecWeight == InitWeight /\ [][NextWeight]_vars

(***************************************************************************)
(* get_decoupling_status                                                   *)
(***************************************************************************)
Returned == status # ""

FourFifths == <<4, 5>>
SixFifths == <<6, 5>>

\* C1: with both growth rates positive the label follows the elasticity
\* em_growth / gdp_growth: below 0.8 "Weak Decoupling", from 0.8 to 1.2, both
\* ends included, "Coupling", above 1.2 "Strong Coupling".  (For g > 0:
\* e/g < 4/5 iff e < 4/5 g.)
C1_PositiveBands ==
    (Returned /\ FGt(gdp_growth, Zero) /\ FGt(em_growth, Zero)) =>
        LET low == RMul(FourFifths, gdp_growth.r)
            high == RMul(SixFifths, gdp_growth.r)
            em == em_growth.r
        IN  /\ RLess(em, low) => status = "Weak Decoupling"
            /\ (RLeq(low, em) /\ RLeq(em, high)) => status = "Coupling"
            /\ RLess(high, em) => status = "Strong Coupling"

\* classify(5, 6): the elasticity is exactly 1.2 and the label is "Coupling"
C1_Witness ==
    /\ status = "Coupling"
    /\ FGt(gdp_growth, Zero)
    /\ em_growth.r = RMul(SixFifths, gdp_growth.r)

\* C2: with both growth rates negative the label follows the elasticity
\* em_growth / gdp_growth: above 1.2 "Weak Recession", from 0.8 to 1.2, both
\* ends included, "Coupled Recession", below 0.8 "Strong Recession".  (For
\* g < 0: e/g > 6/5 iff e < 6/5 g.)
C2_NegativeBands ==
    (Returned /\ FLt(gdp_growth, Zero) /\ FLt(em_growth, Zero)) =>
        LET low == RMul(FourFifths, gdp_growth.r)
            high == RMul(SixFifths, gdp_growth.r)
            em == em_growth.r
        IN  /\ RLess(em, high) => status = "Weak Recession"
            /\ (RLeq(high, em) /\ RLeq(em, low)) => status = "Coupled Recession"
            /\ RLess(low, em) => status = "Strong Recession"

\* classify(-5, -4): the elasticity is exactly 0.8, "Coupled Recession"
C2_Witness ==
    /\ status = "Coupled Recession"
    /\ FLt(gdp_growth, Zero)
    /\ em_growth.r = RMul(FourFifths, gdp_growth.r)

\* C3: every call returns a label of the closed vocabulary, and a call with
\* a missing growth rate returns "No Data" from the first test, whatever the
\* other rate is.
C3_NoDataFirst ==
    Returned =>
        /\ status \in Labels
        /\ (IsNaN(gdp_growth) \/ IsNaN(em_growth)) =>
               (status = "No Data" /\ ret_line = 28)

\* classify(g, NaN) with g a number
C3_Witness ==
    /\ status = "No Data"
    /\ IsNaN(em_growth)
    /\ FGt(gdp_growth, Zero)

\* C4: a pair of numbers with a growth rate that is exactly zero falls
\* through to the last return, "Not Classified", and no call returns from
\* the gdp_growth == 0 tests of lines 36 and 49.
C4_ZeroFallsThrough ==
    Returned =>
        /\ (~IsNaN(gdp_growth) /\ ~IsNaN(em_growth)
            /\ (IsZero(gdp_growth) \/ IsZero(em_growth))) =>
               (status = "Not Classified" /\ ret_line = 62)
        /\ ret_line \notin {36, 49}

\* classify(0, e) with e > 0
C4_Witness ==
    /\ status = "Not Classified"
    /\ IsZero(gdp_growth)
    /\ FGt(em_growth, Zero)

(***************************************************************************)
(* lmdi_weight                                                             *)
(***************************************************************************)
ZeroOrMissing(x) == IsZero(x) \/ IsNaN(x)

\* C9: when v_t or v_0 is zero or missing the returned weight is a finite,
\* strictly positive number.
C9_EpsilonFirst ==
    (w_pc = "done" /\ (ZeroOrMissing(v_t) \/ ZeroOrMissing(v_0))) =>
        (IsFinite(weight) /\ Sgn(weight) > 0)

(***************************************************************************)
(* run_lmdi_analysis                                                       *)
(***************************************************************************)
Done == pc = "done"
Years(frame) == [n \in 1..Len(frame) |-> frame[n].Year]
StrictlyIncreasing(ys) ==
    \A m \in 1..Len(ys) : \A n \in 1..Len(ys) : m < n => ys[m] < ys[n]

\* C5: a cleaned input of N >= 2 rows gives N-1 result rows in ascending year
\* order; the k-th is computed from the rows k-1 and k and carries the year
\* of row k.
C5_SequenceLength ==
    (Done /\ Len(df) >= 2) =>
        /\ Len(results) = Len(df) - 1
        /\ \A n \in 1..Len(results) :
               /\ results[n].Year = df[n + 1].Year
               /\ results[n] = result_row(df, n)
        /\ StrictlyIncreasing(Years(results))
        /\ StrictlyIncreasing(Years(df_results))

\* C7: when the years of the cleaned input are not strictly increasing the
\* run fails with an ordering error and writes no result table.
C7_OrderingError ==
    (Done /\ ~StrictlyIncreasing(Years(df))) =>
        /\ raised \/ \E n \in 1..Len(printed) : printed[n] = "ordering error"
        /\ ~results_file
        /\ df_results = <<>>

\* C8: when a column of columns_to_use is absent the run fails with an error
\* that reaches the caller, and writes neither table.
C8_ColumnError ==
    (Done /\ file_exists /\ ~(columns_to_use \subseteq columns)) =>
        /\ raised
        /\ ~factors_file
        /\ ~results_file

StrictlyPositive(row) ==
    \A x \in {row.E.total, row.E.crops, row.E.livestock,
              row.A.total, row.A.crops, row.A.livestock} :
        IsRational(x) /\ Sgn(x) > 0

\* The change of E_total is the sum of the changes of the sector emissions
Reconciled(row_t, row_t0) ==
    FSub(row_t.E.total, row_t0.E.total) =
        FSub(FAdd(row_t.E.crops, row_t.E.livestock),
             FAdd(row_t0.E.crops, row_t0.E.livestock))

Closes(row) ==
    /\ row.Delta_E_Total_Calculated = row.Delta_E_Total_Actual
    /\ IsRational(row.Delta_E_Total_Actual)

\* C6 as stated: for every year pair with strictly positive levels the sum
\* of the three effects equals the change of E_total.
C6_Original ==
    \A n \in 1..Len(results) :
        (StrictlyPositive(df[n]) /\ StrictlyPositive(df[n + 1])) =>
            Closes(results[n])

\* C6: for every year pair with strictly positive levels in which the change
\* of E_total is the sum of the changes of the sector emissions, the sum of
\* the three effects, Delta_E_Total_Calculated, equals Delta_E_Total_Actual =
\* E_total(t) - E_total(t-1), before and after the rounding of line 157.
C6_Reconciliation ==
    /\ \A n \in 1..Len(results) :
           (StrictlyPositive(df[n]) /\ StrictlyPositive(df[n + 1])
            /\ Reconciled(df[n + 1], df[n])) =>
               /\ Closes(results[n])
               /\ results[n].Delta_E_Total_Actual =
                      FSub(df[n + 1].E.total, df[n].E.total)
               /\ results[n].Delta_E_Total_Calculated =
                      FAdd(FAdd(results[n].Effect_Activity,
                                results[n].Effect_Structure),
                           results[n].Effect_Intensity)
    /\ \A n \in 1..Len(df_results) :
           (StrictlyPositive(df[n]) /\ StrictlyPositive(df[n + 1])
            /\ Reconciled(df[n + 1], df[n])) =>
               Closes(df_results[n])

\* A reconciled pair whose emissions, structure and intensity all changed
C6_Witness ==
    /\ Done
    /\ Len(df_results) = 1
    /\ StrictlyPositive(df[1]) /\ StrictlyPositive(df[2])
    /\ Reconciled(df[2], df[1])
    /\ ~IsZero(results[1].Delta_E_Total_Actual)
    /\ ~IsZero(results[1].Effect_Activity)
    /\ ~IsZero(results[1].Effect_Structure)
    /\ ~IsZero(results[1].Effect_Intensity)
    /\ Closes(results[1])
    /\ Closes(df_results[1])

\* A_i of the sector is zero in year t-1, or missing in year t-1 or t
UndefinedBase(row_t, row_t0, sector) ==
    \/ IsZero(row_t0.A[sector])
    \/ IsNaN(row_t0.A[sector])
    \/ IsNaN(row_t.A[sector])

\* A level of year t-1 or t is missing
LevelMissing(row_t, row_t0) ==
    \E x \in {row_t.E.total, row_t.E.crops, row_t.E.livestock,
              row_t.A.total, row_t.A.crops, row_t.A.livestock,
              row_t0.E.total, row_t0.E.crops, row_t0.E.livestock,
              row_t0.A.total, row_t0.A.crops, row_t0.A.livestock} : IsNaN(x)

SectorSet == {sectors[n] : n \in 1..Len(sectors)}

NotANumber(x) == IsNaN(x) \/ IsInf(x)

\* C10 as stated: when a sector has A_i(t-1) = 0, or a level of year t-1 or
\* t is missing, Effect_Structure and Effect_Intensity of year t are
\* undefined, never zero or another ordinary number (an infinity is taken
\* here as undefined too).
C10_Original ==
    \A n \in 1..Len(results) :
        (LevelMissing(df[n + 1], df[n])
         \/ \E sector \in SectorSet : IsZero(df[n].A[sector])) =>
            /\ NotANumber(results[n].Effect_Structure)
            /\ NotANumber(results[n].Effect_Intensity)

\* C10: when a sector has A_i(t-1) = 0, or its A_i is missing in year t-1 or
\* t, Effect_Structure and Effect_Intensity of year t are NaN or an infinity,
\* never zero or another finite number, before and after the rounding; the
\* levels A_i, E_i of the frame are those of the file (no epsilon), S_i(t-1)
\* is the quotient 0 / A_total and I_i(t-1) the quotient E_i / 0.
C10_UndefinedEffects ==
    /\ \A n \in 1..Len(results) : \A sector \in SectorSet :
           UndefinedBase(df[n + 1], df[n], sector) =>
               /\ NotANumber(results[n].Effect_Structure)
               /\ NotANumber(results[n].Effect_Intensity)
    /\ \A n \in 1..Len(df_results) : \A sector \in SectorSet :
           UndefinedBase(df[n + 1], df[n], sector) =>
               /\ NotANumber(df_results[n].Effect_Structure)
               /\ NotANumber(df_results[n].Effect_Intensity)
    /\ pc \in {"loop", "done"} =>
           \A n \in 1..Len(df) : \A sector \in SectorSet :
               /\ df[n].A = csv[n].A /\ df[n].E = csv[n].E
               /\ (IsZero(df[n].A[sector]) /\ Sgn(df[n].A.total) > 0) =>
                      IsZero(df[n].S[sector])
               /\ IsZero(df[n].A[sector]) => NotANumber(df[n].I[sector])

\* A_crops(t-1) = 0 with every other level positive: the structure effect is
\* +inf and the intensity effect is -inf
C10_Witness ==
    /\ Done
    /\ Len(df_results) = 1
    /\ IsZero(df[1].A.crops)
    /\ ~LevelMissing(df[2], df[1])
    /\ IsZero(df[1].S.crops)
    /\ df[1].I.crops = PInf
    /\ df_results[1].Effect_Structure = PInf
    /\ df_results[1].Effect_Intensity = NInf

====
